---- MODULE Spec2Model ----
(***************************************************************************)
(* unwrap_or_else! (src/lib.rs): the five macro_rules arms, the selection  *)
(* of an arm for an invocation, the typing of the expansion and its        *)
(* evaluation inside the loop of the crate documentation                   *)
(*     for thing in some_stuff { let val = unwrap_or_else!(..); println }  *)
(***************************************************************************)
EXTENDS Integers, Sequences, FiniteSets, TLC

\* ------------------------------------------------------------- bounds
MaxArgs == 4      \* longest argument list of an invocation
MaxLen  == 3      \* longest some_stuff

\* ------------------------------------------------------------- values
Payloads == {3, 10}         \* success / present payloads (Ok(v), Some(v))
ErrCodes == {4, 21}         \* failure payloads (Err(e)), printable
NoValue  == <<"N", "o">>    \* the string literal used as a message

DigitChars == <<"0", "1", "2", "3", "4", "5", "6", "7", "8", "9">>

\* "{}" of an unsigned integer: its decimal digits, most significant first
RECURSIVE Display(_)
Display(n) ==
    IF n < 10 THEN <<DigitChars[n + 1]>>
    ELSE Display(n \div 10) \o <<DigitChars[(n % 10) + 1]>>

\* Println without the line ending (a write!-style print)
PrintNoNewline(stream, text) == stream \o text

\* eprintln!("{}", x) / println!("{}", x): the text, then a newline
Println(stream, text) == stream \o text \o <<"\n">>

\* ------------------------------------------------ invocation arguments
\* One comma-separated argument of an invocation.  k is its syntactic form,
\* n the value of an integer literal, b the body of a closure-like argument.
Arg(k, n, b) == [k |-> k, n |-> n, b |-> b]

Alphabet ==
    { Arg("Result", 0, "-"),          \* the identifier Result
      Arg("Option", 0, "-"),          \* the identifier Option
      Arg("thing", 0, "-"),           \* the container expression
      Arg("lit", 0, "-"),             \* the integer literal 0
      Arg("str", 0, "-"),             \* a string literal
      Arg("continue", 0, "-"),
      Arg("return", 0, "-"),
      Arg("closure", 0, "e"),         \* |e| e
      Arg("closure", 0, "continue") } \* |e| continue

Invocations == UNION { [1..n -> Alphabet] : n \in 0..MaxArgs }

\* ------------------------------------------------------ the macro rules
\* The matchers of the five rules, in their declared order.
Matchers ==
    << <<"Result", "expr", "expr">>,
       <<"expr", "expr">>,
       <<"Result", "expr", "closure">>,
       <<"Option", "expr", "expr">>,
       <<"Option", "expr", "expr", "expr">> >>

Rules == DOMAIN Matchers

\* Does one argument match one fragment of a matcher?  Every argument of the
\* alphabet parses as an expression: Result and Option are path expressions
\* and |e| body is a closure expression.
FragMatches(frag, a) ==
    CASE frag = "Result"  -> a.k = "Result"
      [] frag = "Option"  -> a.k = "Option"
      [] frag = "expr"    -> TRUE
      [] frag = "closure" -> a.k = "closure"

Matches(r, as) ==
    /\ Len(as) = Len(Matchers[r])
    /\ \A j \in 1..Len(as) : FragMatches(Matchers[r][j], as[j])

\* macro_rules! tries the rules in order and takes the first that matches;
\* 0 stands for "no rules expected this token" (the invocation is rejected).
SelectRule(as) ==
    IF \E r \in Rules : Matches(r, as)
    THEN CHOOSE r \in Rules :
            Matches(r, as) /\ \A q \in Rules : Matches(q, as) => r <= q
    ELSE 0

\* Arms with the message of rule 5 never printed (its None arm that of rule 4)
ArmsMsgDropped(r) ==
    CASE r \in {1, 3} -> << [pats |-> {"Ok"},   act |-> "val"],
                            [pats |-> {"Err"},  act |-> IF r = 1 THEN "eprint_e"
                                                        ELSE "bind_e"] >>
      [] r = 2 -> << [pats |-> {"Ok", "Some"}, act |-> "val"],
                     [pats |-> {"Err"},        act |-> "eprint_e"],
                     [pats |-> {"None"},       act |-> "fallback"] >>
      [] r \in {4, 5} -> << [pats |-> {"Some"}, act |-> "val"],
                            [pats |-> {"None"}, act |-> "fallback"] >>

\* The match arms each rule expands to: the constructors an arm's pattern
\* names and what the arm does.
Arms(r) ==
    CASE r = 1 -> << [pats |-> {"Ok"},         act |-> "val"],
                     [pats |-> {"Err"},        act |-> "eprint_e"] >>
      [] r = 2 -> << [pats |-> {"Ok", "Some"}, act |-> "val"],
                     [pats |-> {"Err"},        act |-> "eprint_e"],
                     [pats |-> {"None"},       act |-> "fallback"] >>
      [] r = 3 -> << [pats |-> {"Ok"},         act |-> "val"],
                     [pats |-> {"Err"},        act |-> "bind_e"] >>
      [] r = 4 -> << [pats |-> {"Some"},       act |-> "val"],
                     [pats |-> {"None"},       act |-> "fallback"] >>
      [] r = 5 -> << [pats |-> {"Some"},       act |-> "val"],
                     [pats |-> {"None"},       act |-> "eprint_msg"] >>

\* Where the fragments of a rule sit in the argument list.
ScrutPos(r) == IF r = 2 THEN 1 ELSE 2          \* $x, the matched expression
FbPos(r)    == Len(Matchers[r])                \* $y (rule 5: $z), the fallback
MsgPos      == Len(Matchers[5]) - 1            \* rule 5: $y, the message

\* The arm a value with constructor tag takes: the first whose pattern fits.
ArmOf(r, tag) ==
    LET j == CHOOSE j \in 1..Len(Arms(r)) :
                /\ tag \in Arms(r)[j].pats
                /\ \A q \in 1..(j - 1) : tag \notin Arms(r)[q].pats
    IN Arms(r)[j]

\* ------------------------------------------------------------- typing
\* The constructors of the two container types.
Ctors(ct) == IF ct = "Result" THEN {"Ok", "Err"} ELSE {"Some", "None"}

\* The type of the fallback arm of rule r when its fallback fragment is fb:
\* "int", "closure", "never" (a control transfer) or "error" (no type).
\* Rule 3 splices the body of the closure-like argument, with e an error
\* code; the other rules splice the whole argument, so a closure stays an
\* uncalled closure value, and continue inside a closure does not compile.
FbType(r, fb) ==
    IF r = 3
    THEN (IF fb.b = "e" THEN "int" ELSE "never")
    ELSE CASE fb.k = "lit"                  -> "int"
           [] fb.k \in {"continue", "return"} -> "never"
           [] fb.k = "closure"              ->
                 (IF fb.b = "continue" THEN "error" ELSE "closure")
           [] OTHER                         -> "error"

\* Does the expansion of rule r compile in the loop, for containers of type
\* ct whose payload type is vt?  The matched expression must be the
\* container, every pattern must be a constructor of its type, the message
\* must be printable, and the fallback arm must have the type of the success
\* arm (val : vt) or diverge.  A payload type "closure" is the type of the
\* closure written in the invocation, so only the fallback arm can give it.
TypeChecks(r, as, ct, vt) ==
    /\ as[ScrutPos(r)].k = "thing"
    /\ \A j \in 1..Len(Arms(r)) : Arms(r)[j].pats \subseteq Ctors(ct)
    /\ (r = 5 => as[MsgPos].k \in {"lit", "str"})
    /\ LET t == FbType(r, as[FbPos(r)])
       IN \/ t = vt
          \/ t = "never" /\ vt = "int"

\* The containers some_stuff can hold.  No success-tagged container exists
\* when the payload type is the closure's.
Containers(ct, vt) ==
    LET ok  == IF ct = "Result" THEN "Ok" ELSE "Some"
        bad == IF ct = "Result"
               THEN { [tag |-> "Err", n |-> e] : e \in ErrCodes }
               ELSE { [tag |-> "None", n |-> 0] }
    IN (IF vt = "int" THEN { [tag |-> ok, n |-> v] : v \in Payloads } ELSE {})
       \cup bad

Inputs(ct, vt) == UNION { [1..n -> Containers(ct, vt)] : n \in 0..MaxLen }

IsSuccess(c) == c.tag \in {"Ok", "Some"}

\* The text "{}" gives a printable argument.
MsgText(a) == IF a.k = "str" THEN NoValue ELSE Display(a.n)

NoVal == [k |-> "unset", n |-> 0]
NoThing == [tag |-> "-", n |-> 0]

\* -------------------------------------------------------------- state
VARIABLES
    args,        \* the argument list of the invocation in the loop body
    ctype,       \* "Result" or "Option": the type of the containers
    vty,         \* "int" or "closure": the type of their success payload
    pc,          \* where the build / the program stands
    rule,        \* the rule the invocation was expanded by (0: none)
    some_stuff,  \* the sequence the loop runs over
    i,           \* the number of elements the loop has taken
    thing,       \* the current element
    val,         \* the value the invocation produced
    stderr,      \* the diagnostic stream
    stdout,      \* standard output
    errMark,     \* stderr when the current invocation began
    outcome,     \* how the current invocation ended: none/value/continue/return
    yEvals,      \* evaluations of the fallback fragment in this invocation
    bodyRuns,    \* runs of a closure-like body in this invocation
    msgEvals     \* evaluations of the message in this invocation

vars == <<args, ctype, vty, pc, rule, some_stuff, i, thing, val, stderr,
          stdout, errMark, outcome, yEvals, bodyRuns, msgEvals>>

build == <<args, ctype, vty>>

Init ==
    /\ args \in Invocations
    /\ ctype \in {"Result", "Option"}
    /\ vty \in {"int", "closure"}
    /\ pc = "expand"
    /\ rule = 0
    /\ some_stuff = <<>>
    /\ i = 0
    /\ thing = NoThing
    /\ val = NoVal
    /\ stderr = <<>>
    /\ stdout = <<>>
    /\ errMark = <<>>
    /\ outcome = "none"
    /\ yEvals = 0
    /\ bodyRuns = 0
    /\ msgEvals = 0

\* Macro expansion: pick the rule, or reject the invocation.
Expand ==
    /\ pc = "expand"
    /\ rule' = SelectRule(args)
    /\ pc' = IF rule' = 0 THEN "rejected" ELSE "typeck"
    /\ UNCHANGED <<build, some_stuff, i, thing, val, stderr, stdout, errMark,
                   outcome, yEvals, bodyRuns, msgEvals>>

\* Type checking of the expansion.
TypeCheck ==
    /\ pc = "typeck"
    /\ pc' = IF TypeChecks(rule, args, ctype, vty) THEN "built" ELSE "type_error"
    /\ UNCHANGED <<build, rule, some_stuff, i, thing, val, stderr, stdout,
                   errMark, outcome, yEvals, bodyRuns, msgEvals>>

\* The program starts on some input.
Start ==
    /\ pc = "built"
    /\ some_stuff' \in Inputs(ctype, vty)
    /\ pc' = "head"
    /\ UNCHANGED <<build, rule, i, thing, val, stderr, stdout, errMark,
                   outcome, yEvals, bodyRuns, msgEvals>>

\* for thing in some_stuff: take the next element, or leave the loop.
LoopNext ==
    /\ pc = "head"
    /\ IF i < Len(some_stuff)
       THEN /\ i' = i + 1
            /\ thing' = some_stuff[i + 1]
            /\ pc' = "match"
            /\ errMark' = stderr
            /\ outcome' = "none"
            /\ yEvals' = 0
            /\ bodyRuns' = 0
            /\ msgEvals' = 0
            /\ val' = NoVal
       ELSE /\ pc' = "done"
            /\ UNCHANGED <<i, thing, errMark, outcome, yEvals, bodyRuns,
                           msgEvals, val>>
    /\ UNCHANGED <<build, rule, some_stuff, stderr, stdout>>

\* ArmTarget with every failure / absence arm printing first
ArmTargetLogsAll(act) == IF act = "val" THEN "bound" ELSE "eprint"

\* Where an arm goes first.
ArmTarget(act) ==
    CASE act = "val"        -> "bound"
      [] act = "eprint_e"   -> "eprint"
      [] act = "eprint_msg" -> "eprint"
      [] act = "bind_e"     -> "fallback"
      [] act = "fallback"   -> "fallback"

\* match $x { .. }: take the arm of the element's constructor.
MatchArm ==
    /\ pc = "match"
    /\ LET arm == ArmOf(rule, thing.tag)
       IN /\ pc' = ArmTarget(arm.act)
          /\ IF arm.act = "val"
             THEN /\ val' = [k |-> "int", n |-> thing.n]
                  /\ outcome' = "value"
             ELSE UNCHANGED <<val, outcome>>
    /\ UNCHANGED <<build, rule, some_stuff, i, thing, stderr, stdout, errMark,
                   yEvals, bodyRuns, msgEvals>>

\* eprintln!("{}", e) of rules 1 and 2, eprintln!("{}", $y) of rule 5.
EPrint ==
    /\ pc = "eprint"
    /\ LET arm == ArmOf(rule, thing.tag)
       IN IF arm.act = "eprint_msg"
          THEN /\ stderr' = Println(stderr, MsgText(args[MsgPos]))
               /\ msgEvals' = msgEvals + 1
          ELSE /\ stderr' = Println(stderr, Display(thing.n))
               /\ UNCHANGED msgEvals
    /\ pc' = "fallback"
    /\ UNCHANGED <<build, rule, some_stuff, i, thing, val, stdout, errMark,
                   outcome, yEvals, bodyRuns>>

\* EvalFallback with continue leaving the loop, as break would
EvalFallbackBreaks(r, fb, e) ==
    LET k == IF r = 3 THEN fb.b ELSE fb.k
    IN CASE k = "continue" -> [out |-> "continue", v |-> NoVal, to |-> "done"]
         [] k = "return"   -> [out |-> "return", v |-> NoVal, to |-> "done"]
         [] k = "lit"      ->
               [out |-> "value", v |-> [k |-> "int", n |-> fb.n], to |-> "bound"]
         [] k = "e"        ->
               [out |-> "value", v |-> [k |-> "int", n |-> e], to |-> "bound"]
         [] k = "closure"  ->
               [out |-> "value", v |-> [k |-> "closure", n |-> 0], to |-> "bound"]

\* What evaluating the fallback fragment does: the outcome of the
\* invocation, the value it yields and where control goes.
EvalFallback(r, fb, e) ==
    LET k == IF r = 3 THEN fb.b ELSE fb.k
    IN CASE k = "continue" -> [out |-> "continue", v |-> NoVal, to |-> "head"]
         [] k = "return"   -> [out |-> "return", v |-> NoVal, to |-> "done"]
         [] k = "lit"      ->
               [out |-> "value", v |-> [k |-> "int", n |-> fb.n], to |-> "bound"]
         [] k = "e"        ->
               [out |-> "value", v |-> [k |-> "int", n |-> e], to |-> "bound"]
         [] k = "closure"  ->
               [out |-> "value", v |-> [k |-> "closure", n |-> 0], to |-> "bound"]

\* The fallback fragment ($y; $z in rule 5) is evaluated in place.
Fallback ==
    /\ pc = "fallback"
    /\ LET res == EvalFallback(rule, args[FbPos(rule)], thing.n)
       IN /\ outcome' = res.out
          /\ val' = res.v
          /\ pc' = res.to
    /\ yEvals' = yEvals + 1
    /\ bodyRuns' = IF rule = 3 THEN bodyRuns + 1 ELSE bodyRuns
    /\ UNCHANGED <<build, rule, some_stuff, i, thing, stderr, stdout, errMark,
                   msgEvals>>

\* println!("{}", val), when val is printable; a closure is only bound.
PrintVal ==
    /\ pc = "bound"
    /\ stdout' = IF val.k = "int" THEN Println(stdout, Display(val.n)) ELSE stdout
    /\ pc' = "head"
    /\ UNCHANGED <<build, rule, some_stuff, i, thing, val, stderr, errMark,
                   outcome, yEvals, bodyRuns, msgEvals>>

Next ==
    \/ Expand
    \/ TypeCheck
    \/ Start
    \/ LoopNext
    \/ MatchArm
    \/ EPrint
    \/ Fallback
    \/ PrintVal

Spec == Init /\ [][Next]_vars

\* The program is sequential: a step that can be taken is taken.
FairSpec == Spec /\ WF_vars(Next)

\* =============================================================== claims
\* The five call shapes as the documentation lists them, by the argument
\* list alone, and the rule written for each.
IsShapeR(as)  == Len(as) = 3 /\ as[1].k = "Result" /\ as[3].k # "closure"
IsShapeRC(as) == Len(as) = 3 /\ as[1].k = "Result" /\ as[3].k = "closure"
IsShapeP(as)  == Len(as) = 2
IsShapeO(as)  == Len(as) = 3 /\ as[1].k = "Option"
IsShapeOM(as) == Len(as) = 4 /\ as[1].k = "Option"

OwnRule(as) ==
    CASE IsShapeR(as)  -> 1
      [] IsShapeP(as)  -> 2
      [] IsShapeRC(as) -> 3
      [] IsShapeO(as)  -> 4
      [] IsShapeOM(as) -> 5
      [] OTHER         -> 0

\* A call the documentation promises to work in the loop over printable
\* payloads: the container where its shape wants it, of the kind its keyword
\* names, a printable message, and a fallback of the payload's type or a
\* control transfer.
WellFormedCall(as, ct, vt) ==
    LET r == OwnRule(as)
    IN /\ r # 0
       /\ vt = "int"
       /\ as[ScrutPos(r)].k = "thing"
       /\ (r \in {1, 3} => ct = "Result")
       /\ (r \in {4, 5} => ct = "Option")
       /\ (r = 5 => as[MsgPos].k \in {"lit", "str"})
       /\ FbType(r, as[FbPos(r)]) \in {"int", "never"}

\* The expected diagnostic text of each number of the model, written out.
Shown ==
    (0 :> <<"0">>) @@ (3 :> <<"3">>) @@ (4 :> <<"4">>) @@
    (10 :> <<"1", "0">>) @@ (21 :> <<"2", "1">>)

ShownMsg(a) == IF a.k = "str" THEN <<"N", "o">> ELSE Shown[a.n]

NL == <<"\n">>

Finished == outcome # "none"

\* The invocation ended the way the fallback expression fb dictates.
EndsAs(fb) ==
    /\ (fb.k = "lit" => outcome = "value" /\ val = [k |-> "int", n |-> fb.n])
    /\ (fb.k = "closure" => outcome = "value" /\ val.k = "closure")
    /\ (fb.k = "continue" => outcome = "continue" /\ val = NoVal)
    /\ (fb.k = "return" => outcome = "return" /\ pc = "done")

\* C1: unwrap_or_else!(Result, c, |e| fb) on a failure container writes
\* nothing to the diagnostic stream by itself, binds the failure payload to
\* e and evaluates fb once (so |e| e yields the payload, |e| continue skips).
C1_ClosureFormBindsSilently ==
    IsShapeRC(args) /\ WellFormedCall(args, ctype, vty) =>
        /\ pc # "type_error"
        /\ (thing.tag = "Err" /\ Finished =>
               /\ stderr = errMark
               /\ bodyRuns = 1
               /\ (args[3].b = "e" =>
                      outcome = "value" /\ val = [k |-> "int", n |-> thing.n])
               /\ (args[3].b = "continue" => outcome = "continue"))

\* C2: an argument list of none of the five shapes is rejected at expansion,
\* and an accepted one is expanded by the rule written for its own shape.
C2_ExpandedByOwnRule ==
    pc # "expand" =>
        /\ rule = OwnRule(args)
        /\ (pc = "rejected" <=> OwnRule(args) = 0)

\* C3: on a success / present container every one of the five shapes yields
\* exactly the payload and leaves the diagnostic stream as it was.
C3_SuccessYieldsPayload ==
    WellFormedCall(args, ctype, vty) =>
        /\ pc # "type_error"
        /\ (IsSuccess(thing) /\ Finished =>
               /\ outcome = "value"
               /\ val = [k |-> "int", n |-> thing.n]
               /\ stderr = errMark)

\* C4: unwrap_or_else!(Result, c, fb) on Err(e) appends exactly the line
\* "e\n" to the diagnostic stream, before fb is evaluated, and then ends as
\* fb does (fb's value, or its control transfer).
C4_ResultPrintsThenFallsBack ==
    IsShapeR(args) /\ thing.tag = "Err" =>
        /\ (pc \in {"match", "eprint"} => stderr = errMark /\ yEvals = 0)
        /\ (pc = "fallback" =>
               stderr = errMark \o Shown[thing.n] \o NL /\ yEvals = 0)
        /\ (Finished =>
               /\ stderr = errMark \o Shown[thing.n] \o NL
               /\ yEvals = 1
               /\ EndsAs(args[3]))

C4_Witness ==
    /\ IsShapeR(args) /\ thing = [tag |-> "Err", n |-> 21]
    /\ outcome = "continue" /\ pc = "head"
    /\ Len(stderr) = Len(errMark) + 3

\* C5: unwrap_or_else!(c, fb) takes either container: success / present
\* yields the payload and writes nothing, absent ends as fb and writes
\* nothing, failure writes "e\n" and then ends as fb.
C5_TwoArgumentForm ==
    IsShapeP(args) /\ WellFormedCall(args, ctype, vty) =>
        /\ pc # "type_error"
        /\ (Finished =>
               CASE IsSuccess(thing) ->
                        /\ val = [k |-> "int", n |-> thing.n]
                        /\ stderr = errMark
                 [] thing.tag = "None" ->
                        /\ stderr = errMark
                        /\ EndsAs(args[2])
                 [] thing.tag = "Err" ->
                        /\ stderr = errMark \o Shown[thing.n] \o NL
                        /\ EndsAs(args[2]))

\* C6: unwrap_or_else!(Option, c, msg, fb) on None appends exactly the line
\* "msg\n" to the diagnostic stream, before fb is evaluated, and then ends as
\* fb does.
C6_OptionMessagePrinted ==
    IsShapeOM(args) /\ thing.tag = "None" =>
        /\ (pc \in {"match", "eprint"} => stderr = errMark /\ yEvals = 0)
        /\ (pc = "fallback" =>
               stderr = errMark \o ShownMsg(args[3]) \o NL /\ yEvals = 0)
        /\ (Finished =>
               /\ stderr = errMark \o ShownMsg(args[3]) \o NL
               /\ yEvals = 1
               /\ EndsAs(args[4]))

C6_Witness ==
    /\ IsShapeOM(args) /\ thing.tag = "None" /\ args[3].k = "str"
    /\ outcome = "value" /\ val = [k |-> "int", n |-> 0]
    /\ stderr = errMark \o <<"N", "o", "\n">>

\* C7: unwrap_or_else!(Option, c, fb) on None leaves the diagnostic stream
\* unchanged and ends as fb does.
C7_OptionSilent ==
    IsShapeO(args) /\ thing.tag = "None" =>
        /\ stderr = errMark
        /\ (Finished => yEvals = 1 /\ EndsAs(args[3]))

C7_Witness ==
    /\ IsShapeO(args) /\ thing.tag = "None" /\ i = 2
    /\ outcome = "return" /\ pc = "done" /\ stderr = <<>>

\* What the loop of the documentation must have written after the elements
\* of s: the payloads of the Ok elements, and the errors of the Err elements.
RECURSIVE OutLines(_)
OutLines(s) ==
    IF s = <<>> THEN <<>>
    ELSE OutLines(SubSeq(s, 1, Len(s) - 1))
         \o (IF s[Len(s)].tag = "Ok" THEN Shown[s[Len(s)].n] \o NL ELSE <<>>)

RECURSIVE ErrLines(_)
ErrLines(s) ==
    IF s = <<>> THEN <<>>
    ELSE ErrLines(SubSeq(s, 1, Len(s) - 1))
         \o (IF s[Len(s)].tag = "Err" THEN Shown[s[Len(s)].n] \o NL ELSE <<>>)

\* C8: in the loop with unwrap_or_else!(Result, thing, continue) a failure
\* skips only its own iteration: the loop ends only after the last element,
\* after each iteration standard output holds the payloads of the Ok
\* elements so far and the diagnostic stream the errors of the Err elements
\* so far, in sequence order, and the running loop reaches its end with
\* every element visited.
ContinueLoop == IsShapeR(args) /\ args[3].k = "continue"

C8_LoopState ==
    ContinueLoop =>
        /\ (pc = "done" => i = Len(some_stuff))
        /\ (pc \in {"head", "done"} =>
               /\ stdout = OutLines(SubSeq(some_stuff, 1, i))
               /\ stderr = ErrLines(SubSeq(some_stuff, 1, i)))

C8_ContinueSkipsOneIteration ==
    /\ []C8_LoopState
    /\ (ContinueLoop /\ pc = "head") ~> (pc = "done" /\ i = Len(some_stuff))

C8_Witness ==
    /\ IsShapeR(args) /\ args[3].k = "continue" /\ pc = "done"
    /\ some_stuff = << [tag |-> "Err", n |-> 21], [tag |-> "Ok", n |-> 10],
                       [tag |-> "Err", n |-> 4] >>
    /\ stdout = <<"1", "0", "\n">>
    /\ stderr = <<"2", "1", "\n", "4", "\n">>

\* C9: in every shape the fallback fb runs only for a failure / absent
\* container, and then exactly once; for a success / present container it
\* never runs and the message of the four-argument form is neither
\* evaluated nor printed.  (fb of the closure-like form is its body.)
C9_FallbackOnlyOnFailureOnce ==
    LET fbRuns == IF IsShapeRC(args) THEN bodyRuns ELSE yEvals
    IN /\ fbRuns <= 1
       /\ (Finished /\ IsSuccess(thing) =>
              fbRuns = 0 /\ msgEvals = 0 /\ stderr = errMark)
       /\ (Finished /\ ~IsSuccess(thing) => fbRuns = 1)

\* C10: unwrap_or_else!(c, fb) behaves as the explicit form of c's type,
\* unwrap_or_else!(Result, c, fb) or unwrap_or_else!(Option, c, fb): it
\* builds whenever that form does, and every invocation writes and ends as
\* the arms of that form would.
C10_TwoArgumentFormAsExplicit ==
    IsShapeP(args) /\ args[1].k = "thing" =>
        LET tw == <<Arg(ctype, 0, "-")>> \o args
            r  == SelectRule(tw)
        IN TypeChecks(r, tw, ctype, vty) =>
              /\ pc # "type_error"
              /\ (Finished =>
                     LET act == ArmOf(r, thing.tag).act
                     IN /\ (stderr # errMark <=> act = "eprint_e")
                        /\ outcome = IF act = "val" THEN "value"
                                     ELSE EvalFallback(r, tw[3], thing.n).out)

====
